---------------------------- MODULE Spec2Model ----------------------------
(***************************************************************************)
(* Zero-Gravity: the INFT viewer (App.tsx: connect, disconnect,            *)
(* handleDownload with its sign -> derive -> fetch -> decrypt -> save      *)
(* chain), the helpers normalizeCid / base64ToBytes / decryptBase64Payload *)
(* and the one-route IPFS proxy (server.js).                               *)
(*                                                                         *)
(* Text is modelled by TLA+ strings, bytes by integers 0..255, base64 text *)
(* by sequences of symbols: 0..63 a base64 digit, PAD the "=" sign, WS a   *)
(* white-space character.                                                  *)
(***************************************************************************)
EXTENDS Integers, Sequences, FiniteSets, TLC

VARIABLES
  connectedAddress,  \* App state: string or NULL
  provider,          \* App state: WalletConnect provider or NULL
  signer,            \* App state: signer handle or NULL
  logs,              \* App state: log lines, newest first
  storageGateway,    \* App state: gateway URL override
  conn,              \* connectWalletConnect call chains in flight
  chains,            \* handleDownload call chains in flight or ended
  saved,             \* files handed to the browser's save, in order
  clicks,            \* buttons pressed so far
  now,               \* Date.now(): milliseconds since the page was loaded
  last,              \* the user action taken last: [op, id]
  reqs,              \* proxy: the GET /ipfs/:cid requests and their responses
  cidIn, cidOut,     \* normalizeCid: argument and result
  dec                \* decryptBase64Payload: arguments and result

vars == <<connectedAddress, provider, signer, logs, storageGateway, conn,
          chains, saved, clicks, now, last, reqs, cidIn, cidOut, dec>>

appVars == <<connectedAddress, provider, signer, logs, storageGateway, conn,
             chains, saved, clicks, now>>

NULL == "<null>"

Min(a, b) == IF a < b THEN a ELSE b

RECURSIVE SumSeq(_)
SumSeq(s) == IF s = <<>> THEN 0 ELSE Head(s) + SumSeq(Tail(s))

----------------------------------------------------------------------------
(* Bounds of the model *)

MaxCidLen == 4       \* longest identifier given to normalizeCid
MaxPayloadLen == 14  \* longest raw payload given to decryptBase64Payload
MaxPlainLen == 2     \* longest plaintext of the round trip

----------------------------------------------------------------------------
(* normalizeCid *)

StartsWith(s, p) == Len(s) >= Len(p) /\ SubSeq(s, 1, Len(p)) = p

\* String.prototype.slice(n) for 0 <= n
Slice(s, n) == SubSeq(s, n + 1, Len(s))

EndsWith(s, p) == Len(s) >= Len(p) /\ SubSeq(s, Len(s) - Len(p) + 1, Len(s)) = p

normalizeCidStripAll(cid) ==
  LET RECURSIVE strip(_)
      strip(s) == IF StartsWith(s, "0x") THEN strip(Slice(s, 2)) ELSE s
  IN strip(cid)

normalizeCid(cid) ==
  IF cid = "" THEN cid
  ELSE IF StartsWith(cid, "0x") THEN Slice(cid, 2) ELSE cid

CidAlphabet == {"0", "x", "X", "a"}

RECURSIVE StringsUpTo(_)
StringsUpTo(n) ==
  IF n = 0 THEN {""}
  ELSE LET shorter == StringsUpTo(n - 1)
       IN shorter \cup {c \o s : c \in CidAlphabet, s \in shorter}

----------------------------------------------------------------------------
(* base64 text and window.atob *)

PAD == 64
WS == 65

\* the base64 text of a byte sequence (what the uploader of a payload stores)
RECURSIVE Base64Encode(_)
Base64Encode(bytes) ==
  IF Len(bytes) = 0 THEN <<>>
  ELSE IF Len(bytes) = 1 THEN
    <<bytes[1] \div 4, (bytes[1] % 4) * 16, PAD, PAD>>
  ELSE IF Len(bytes) = 2 THEN
    <<bytes[1] \div 4, (bytes[1] % 4) * 16 + bytes[2] \div 16,
      (bytes[2] % 16) * 4, PAD>>
  ELSE
    <<bytes[1] \div 4, (bytes[1] % 4) * 16 + bytes[2] \div 16,
      (bytes[2] % 16) * 4 + bytes[3] \div 64, bytes[3] % 64>>
    \o Base64Encode(SubSeq(bytes, 4, Len(bytes)))

StripWs(text) == SelectSeq(text, LAMBDA c : c # WS)

\* forgiving-base64: one or two trailing "=" go when the length is a multiple of 4
StripPad(text) ==
  IF Len(text) % 4 = 0 /\ Len(text) > 0 /\ text[Len(text)] = PAD
  THEN IF text[Len(text) - 1] = PAD
       THEN SubSeq(text, 1, Len(text) - 2)
       ELSE SubSeq(text, 1, Len(text) - 1)
  ELSE text

RECURSIVE DecodeDigits(_)
DecodeDigits(d) ==
  IF Len(d) <= 1 THEN <<>>
  ELSE IF Len(d) = 2 THEN <<d[1] * 4 + d[2] \div 16>>
  ELSE IF Len(d) = 3 THEN
    <<d[1] * 4 + d[2] \div 16, (d[2] % 16) * 16 + d[3] \div 4>>
  ELSE
    <<d[1] * 4 + d[2] \div 16, (d[2] % 16) * 16 + d[3] \div 4,
      (d[3] % 4) * 64 + d[4]>>
    \o DecodeDigits(SubSeq(d, 5, Len(d)))

\* window.atob and the copy loop of base64ToBytes: [ok, bytes] or [ok, error]
base64ToBytes(base64) ==
  LET digits == StripPad(StripWs(base64))
  IN IF Len(digits) % 4 = 1 \/ \E i \in 1..Len(digits) : digits[i] \notin 0..63
     THEN [ok |-> FALSE, error |-> "InvalidCharacterError"]
     ELSE [ok |-> TRUE, bytes |-> DecodeDigits(digits)]

\* String.prototype.trim on base64 text
RECURSIVE TrimLeft(_)
TrimLeft(t) == IF Len(t) > 0 /\ t[1] = WS THEN TrimLeft(Tail(t)) ELSE t

RECURSIVE TrimRight(_)
TrimRight(t) ==
  IF Len(t) > 0 /\ t[Len(t)] = WS THEN TrimRight(SubSeq(t, 1, Len(t) - 1)) ELSE t

Trim(t) == TrimRight(TrimLeft(t))

----------------------------------------------------------------------------
(* AES-GCM as the Web Crypto primitive behaves: an authenticated cipher.   *)
(* The key stream and the tag are small arithmetic stand-ins; what is kept *)
(* is that the tag binds key, iv and ciphertext and that decryption under  *)
(* the key and iv of the encryption returns the plaintext.                 *)

IV_LEN == 12
TAG_LEN == 16

KeyStream(key, iv, i) == (key * 31 + SumSeq(iv) + 7 * i) % 256

GcmTagOver(key, digest) == [j \in 1..TAG_LEN |-> (key * j + digest + j) % 256]

GcmTag(key, iv, ct) == GcmTagOver(key, SumSeq(iv) + 3 * SumSeq(ct) + Len(ct))

\* the uploader's side: ciphertext followed by the tag
AesGcmEncrypt(pt, key, iv) ==
  LET ct == [i \in 1..Len(pt) |-> (pt[i] + KeyStream(key, iv, i)) % 256]
  IN ct \o GcmTag(key, iv, ct)

\* crypto.subtle.decrypt({name: "AES-GCM", iv}, key, data)
AesGcmDecrypt(key, iv, data) ==
  IF Len(data) < TAG_LEN
  THEN [ok |-> FALSE, error |-> "OperationError"]
  ELSE LET ct  == SubSeq(data, 1, Len(data) - TAG_LEN)
           tag == SubSeq(data, Len(data) - TAG_LEN + 1, Len(data))
       IN IF tag = GcmTag(key, iv, ct)
          THEN [ok |-> TRUE,
                bytes |-> [i \in 1..Len(ct) |->
                             (ct[i] + 256 - KeyStream(key, iv, i)) % 256]]
          ELSE [ok |-> FALSE, error |-> "OperationError"]

----------------------------------------------------------------------------
(* decryptBase64Payload: the result, and the calls made to the primitive *)

decryptShortAccepted(base64, key) ==
  LET b == base64ToBytes(base64)
  IN IF ~b.ok THEN [ok |-> FALSE, error |-> b.error, gcmCalls |-> <<>>]
     ELSE IF Len(b.bytes) < IV_LEN
     THEN [ok |-> FALSE, error |-> "Payload too short", gcmCalls |-> <<>>]
     ELSE LET iv == SubSeq(b.bytes, 1, IV_LEN)
              ciphertext == SubSeq(b.bytes, IV_LEN + 1, Len(b.bytes))
              plain == AesGcmDecrypt(key, iv, ciphertext)
              call == <<[key |-> key, iv |-> iv, ciphertext |-> ciphertext]>>
          IN IF plain.ok
             THEN [ok |-> TRUE, bytes |-> plain.bytes, gcmCalls |-> call]
             ELSE [ok |-> FALSE, error |-> plain.error, gcmCalls |-> call]

decryptIvInCiphertext(base64, key) ==
  LET b == base64ToBytes(base64)
  IN IF ~b.ok THEN [ok |-> FALSE, error |-> b.error, gcmCalls |-> <<>>]
     ELSE IF Len(b.bytes) <= IV_LEN
     THEN [ok |-> FALSE, error |-> "Payload too short", gcmCalls |-> <<>>]
     ELSE LET iv == SubSeq(b.bytes, 1, IV_LEN)
              ciphertext == SubSeq(b.bytes, IV_LEN, Len(b.bytes))
              plain == AesGcmDecrypt(key, iv, ciphertext)
              call == <<[key |-> key, iv |-> iv, ciphertext |-> ciphertext]>>
          IN IF plain.ok
             THEN [ok |-> TRUE, bytes |-> plain.bytes, gcmCalls |-> call]
             ELSE [ok |-> FALSE, error |-> plain.error, gcmCalls |-> call]

decryptBase64Payload(base64, key) ==
  LET b == base64ToBytes(base64)
  IN IF ~b.ok THEN [ok |-> FALSE, error |-> b.error, gcmCalls |-> <<>>]
     ELSE IF Len(b.bytes) <= IV_LEN
     THEN [ok |-> FALSE, error |-> "Payload too short", gcmCalls |-> <<>>]
     ELSE LET iv == SubSeq(b.bytes, 1, IV_LEN)
              ciphertext == SubSeq(b.bytes, IV_LEN + 1, Len(b.bytes))
              plain == AesGcmDecrypt(key, iv, ciphertext)
              call == <<[key |-> key, iv |-> iv, ciphertext |-> ciphertext]>>
          IN IF plain.ok
             THEN [ok |-> TRUE, bytes |-> plain.bytes, gcmCalls |-> call]
             ELSE [ok |-> FALSE, error |-> plain.error, gcmCalls |-> call]

----------------------------------------------------------------------------
(* Inputs of the pure functions *)

Keys == {1, 2, 3}

PatternBytes(n, seed) == [i \in 1..n |-> (seed + 37 * i) % 256]

Seeds == {0, 200}

Nonces == {PatternBytes(IV_LEN, 5), PatternBytes(IV_LEN, 131)}

Plaintexts == {PatternBytes(n, sd) : n \in 0..MaxPlainLen, sd \in Seeds}

NoResult == [ok |-> FALSE, error |-> "", gcmCalls |-> <<>>]

\* a payload of arbitrary bytes
RawInputs ==
  {[kind |-> "raw", raw |-> PatternBytes(n, sd), plain |-> <<>>, encKey |-> 0,
    b64 |-> Base64Encode(PatternBytes(n, sd)), key |-> k]
     : n \in 0..MaxPayloadLen, sd \in Seeds, k \in {1}}

\* a payload made as the README says: base64(iv || AES-GCM ciphertext)
SealedInputs ==
  {[kind |-> "sealed", raw |-> iv \o AesGcmEncrypt(pt, ek, iv), plain |-> pt,
    encKey |-> ek, b64 |-> Base64Encode(iv \o AesGcmEncrypt(pt, ek, iv)),
    key |-> k]
     : pt \in Plaintexts, ek \in Keys, iv \in Nonces, k \in Keys}

\* text that is no base64
BadInputs ==
  {[kind |-> "bad", raw |-> <<>>, plain |-> <<>>, encKey |-> 0,
    b64 |-> t, key |-> 1] : t \in {<<1>>, <<1, 2, PAD, 3>>}}

DecIdle == [state |-> "idle", in |-> CHOOSE x \in BadInputs : TRUE,
            result |-> NoResult]

----------------------------------------------------------------------------
(* Values of the state a specification does not use *)

NoStep == [op |-> "none", id |-> 0]

AppIdle ==
  /\ connectedAddress = NULL
  /\ provider = NULL
  /\ signer = NULL
  /\ logs = <<>>
  /\ storageGateway = ""
  /\ conn = <<>>
  /\ chains = <<>>
  /\ saved = <<>>
  /\ clicks = 0
  /\ now = 0

ProxyIdle == reqs = <<>>

PureIdle == cidIn = NULL /\ cidOut = NULL /\ dec = DecIdle

----------------------------------------------------------------------------
(* normalizeCid applied to every identifier up to MaxCidLen characters *)

InitCid ==
  /\ AppIdle /\ ProxyIdle
  /\ last = NoStep
  /\ dec = DecIdle
  /\ cidIn \in StringsUpTo(MaxCidLen)
  /\ cidOut = NULL

CallNormalizeCid ==
  /\ cidIn # NULL /\ cidOut = NULL
  /\ cidOut' = normalizeCid(cidIn)
  /\ UNCHANGED <<appVars, last, reqs, cidIn, dec>>

NextCid == CallNormalizeCid

SpecCid == InitCid /\ [][NextCid]_vars

\* C7: normalizeCid("0x" + s) = s for every identifier s, so exactly one
\* leading "0x" goes and a second one stays; an identifier that is not "0x"
\* followed by something, the empty one included, comes back unchanged.
C7_StripsExactlyOnePrefix ==
  cidOut # NULL =>
    /\ \A s \in StringsUpTo(MaxCidLen) : cidIn = "0x" \o s => cidOut = s
    /\ (\A s \in StringsUpTo(MaxCidLen) : cidIn # "0x" \o s) => cidOut = cidIn

C7_Witness_DoubledPrefix == cidIn = "0x0x" /\ cidOut = "0x"

----------------------------------------------------------------------------
(* decryptBase64Payload applied to raw, sealed and malformed payloads *)

InitDecrypt ==
  /\ AppIdle /\ ProxyIdle
  /\ last = NoStep
  /\ cidIn = NULL /\ cidOut = NULL
  /\ \E i \in RawInputs \cup SealedInputs \cup BadInputs :
       dec = [state |-> "ready", in |-> i, result |-> NoResult]

CallDecrypt ==
  /\ dec.state = "ready"
  /\ dec' = [dec EXCEPT !.state = "done",
                        !.result = decryptBase64Payload(dec.in.b64, dec.in.key)]
  /\ UNCHANGED <<appVars, last, reqs, cidIn, cidOut>>

NextDecrypt == CallDecrypt

SpecDecrypt == InitDecrypt /\ [][NextDecrypt]_vars

\* C2: a payload that decodes to at most 12 bytes fails with "Payload too
\* short" and the AES-GCM primitive is not called; a longer one reaches the
\* primitive exactly once, with iv = its first 12 bytes and ciphertext = the
\* rest.  dec.in.raw is the byte sequence the base64 text was made from.
C2_ShortPayloadNeverDecrypted ==
  (dec.state = "done" /\ dec.in.kind # "bad") =>
    LET raw == dec.in.raw
    IN IF Len(raw) <= 12
       THEN /\ ~dec.result.ok
            /\ dec.result.error = "Payload too short"
            /\ dec.result.gcmCalls = <<>>
       ELSE dec.result.gcmCalls =
              <<[key |-> dec.in.key,
                 iv |-> SubSeq(raw, 1, 12),
                 ciphertext |-> SubSeq(raw, 13, Len(raw))]>>

C2_Witness_TwelveBytes ==
  /\ dec.state = "done"
  /\ dec.in.kind = "raw"
  /\ Len(dec.in.raw) = 12
  /\ dec.result.error = "Payload too short"

\* C3: round trip.  base64(nonce || encrypt(plaintext, key, nonce)) decrypts
\* under the same key to exactly the plaintext, and under any other key it
\* fails with the primitive's decryption error and returns no bytes.
C3_RoundTrip ==
  (dec.state = "done" /\ dec.in.kind = "sealed") =>
    IF dec.in.key = dec.in.encKey
    THEN dec.result.ok /\ dec.result.bytes = dec.in.plain
    ELSE ~dec.result.ok /\ dec.result.error = "OperationError"

C3_Witness_Decrypted ==
  /\ dec.state = "done"
  /\ dec.in.kind = "sealed"
  /\ dec.in.key = dec.in.encKey
  /\ Len(dec.in.plain) = MaxPlainLen
  /\ dec.result.ok

----------------------------------------------------------------------------
(* server.js: app.get('/ipfs/:cid').  A request is a record: the url asked *)
(* of the gateway, where the handler stands (pc), what the gateway did     *)
(* (up) and what the handler called on res (res).                          *)

MaxRequests == 2     \* requests the proxy serves in one behaviour

GATEWAY == "https://ipfs.io/ipfs/"

ProxyCids == {"QmA", "QmB"}

UpstreamStatuses == {200, 404, 502}

\* r.headers.get('content-type'): null when the header is absent
UpstreamContentTypes == {NULL, "", "text/plain", "image/png"}

UpstreamBodies == {"<bytes>", "<gateway error page>"}

\* res before the handler touches it: express answers 200 unless told
\* otherwise.  res records what the handler passes to express.
FreshRes == [status |-> 200, contentType |-> NULL, body |-> NULL, sent |-> FALSE]

NoUpstream == [threw |-> "none", status |-> 0, contentType |-> NULL, body |-> NULL]

\* a || b on header values: null and "" are falsy
AlwaysDefault(a, b) == b

OrElse(a, b) == IF a = NULL \/ a = "" THEN b ELSE a

\* the catch block: res.status(500).send('Proxy error')
ProxyCatchKeepsStatus(res) == [res EXCEPT !.body = "Proxy error", !.sent = TRUE]

ProxyCatch(res) ==
  [res EXCEPT !.status = 500, !.body = "Proxy error", !.sent = TRUE]

\* res.set('content-type', ...); res.send(body)
ProxyRelay(res, up) ==
  [res EXCEPT !.contentType = OrElse(up.contentType, "application/octet-stream"),
              !.body = up.body,
              !.sent = TRUE]

\* GET /ipfs/:cid arrives: the handler builds the url and awaits fetch(url)
ProxyReceive ==
  /\ Len(reqs) < MaxRequests
  /\ \E cid \in ProxyCids :
       reqs' = Append(reqs, [url |-> GATEWAY \o cid, pc |-> "fetch",
                             up |-> NoUpstream, res |-> FreshRes])
  /\ UNCHANGED <<appVars, last, cidIn, cidOut, dec>>

\* fetch(url) rejects (DNS, connection refused, ...): the catch block runs
ProxyFetchThrows ==
  \E i \in 1..Len(reqs) :
    /\ reqs[i].pc = "fetch"
    /\ reqs' = [reqs EXCEPT ![i].pc = "done",
                            ![i].up.threw = "fetch",
                            ![i].res = ProxyCatch(reqs[i].res)]
    /\ UNCHANGED <<appVars, last, cidIn, cidOut, dec>>

\* fetch(url) resolves with the gateway's status line and headers, whatever
\* the status; the handler awaits r.buffer()
ProxyFetchResolves ==
  \E i \in 1..Len(reqs), st \in UpstreamStatuses, ct \in UpstreamContentTypes :
    /\ reqs[i].pc = "fetch"
    /\ reqs' = [reqs EXCEPT ![i].pc = "buffer",
                            ![i].up.status = st,
                            ![i].up.contentType = ct]
    /\ UNCHANGED <<appVars, last, cidIn, cidOut, dec>>

\* r.buffer() rejects (the connection breaks mid-body): the catch block runs
ProxyBufferThrows ==
  \E i \in 1..Len(reqs) :
    /\ reqs[i].pc = "buffer"
    /\ reqs' = [reqs EXCEPT ![i].pc = "done",
                            ![i].up.threw = "buffer",
                            ![i].res = ProxyCatch(reqs[i].res)]
    /\ UNCHANGED <<appVars, last, cidIn, cidOut, dec>>

\* r.buffer() resolves: content-type is set and the body sent
ProxyBufferResolves ==
  \E i \in 1..Len(reqs), b \in UpstreamBodies :
    /\ reqs[i].pc = "buffer"
    /\ LET up == [reqs[i].up EXCEPT !.body = b]
       IN reqs' = [reqs EXCEPT ![i].pc = "done",
                               ![i].up = up,
                               ![i].res = ProxyRelay(reqs[i].res, up)]
    /\ UNCHANGED <<appVars, last, cidIn, cidOut, dec>>

InitProxy ==
  /\ AppIdle /\ PureIdle
  /\ last = NoStep
  /\ reqs = <<>>

NextProxy ==
  \/ ProxyReceive
  \/ ProxyFetchThrows
  \/ ProxyFetchResolves
  \/ ProxyBufferThrows
  \/ ProxyBufferResolves

SpecProxy == InitProxy /\ [][NextProxy]_vars

UpstreamThrew(r) == r.up.threw # "none"

UpstreamSucceeded(r) == r.up.threw = "none" /\ r.up.status \in 200..299

\* C4: when the upstream fetch, or reading its body, throws, the response is
\* 500 with body exactly "Proxy error", and neither an upstream body nor a
\* content-type was put on it.
C4_ThrowGivesProxyError ==
  \A i \in 1..Len(reqs) :
    (reqs[i].pc = "done" /\ UpstreamThrew(reqs[i])) =>
      /\ reqs[i].res.sent
      /\ reqs[i].res.status = 500
      /\ reqs[i].res.body = "Proxy error"
      /\ reqs[i].res.contentType = NULL

C4_Witness_BufferThrew ==
  \E i \in 1..Len(reqs) :
    /\ reqs[i].pc = "done"
    /\ reqs[i].up.threw = "buffer"
    /\ reqs[i].up.contentType = "text/plain"
    /\ reqs[i].res.status = 500

\* C5 (as claimed): whenever the gateway does not deliver the content
\* successfully (a throw, or a non-success status such as 404 or 502) the
\* client receives status 500.
C5_EveryUpstreamFailureIs500 ==
  \A i \in 1..Len(reqs) :
    (reqs[i].pc = "done" /\ ~UpstreamSucceeded(reqs[i])) =>
      reqs[i].res.status = 500

----------------------------------------------------------------------------
(* App.tsx: configuration *)

MaxClicks == 2       \* user actions (button presses, gateway edits)

LOG_CAP == 200

UpperCase == "ABCDEFGHIJKLMNOPQRSTUVWXYZ"
LowerCase == "abcdefghijklmnopqrstuvwxyz"

LowerChar(c) ==
  IF \E i \in 1..26 : SubSeq(UpperCase, i, i) = c
  THEN LET i == CHOOSE i \in 1..26 : SubSeq(UpperCase, i, i) = c
       IN SubSeq(LowerCase, i, i)
  ELSE c

RECURSIVE ToLowerCase(_)
ToLowerCase(str) ==
  IF str = "" THEN ""
  ELSE LowerChar(SubSeq(str, 1, 1)) \o ToLowerCase(Slice(str, 1))

OWNER_ADDRESS == ToLowerCase("0x6F4D829488686afd8D9B68AE56986C312784C0e6")

TOKENS ==
  << [tokenId |-> "0x4884f459...01", storageCid |-> "",
      fileName |-> "unknown.txt"],
     [tokenId |-> "0x4884f459...02",
      storageCid |-> "0xda25a5f5ea40e210db8a662801647b655dd2d1030ab89285441c74ced13e2945",
      fileName |-> "restoreCode.bat"],
     [tokenId |-> "0x4884f459...03",
      storageCid |-> "0xbf02c1cab5034303eccda34e461e0f65c3277c217023979ca1901f57ce6ba6b0",
      fileName |-> "0g research.txt"],
     [tokenId |-> "0x4884f459...04",
      storageCid |-> "0x175dce81758f5c91c49fb8a0c4af35653bdf92fc21a02daf53adcc3004c0b57c",
      fileName |-> "Renewable Energy.txt"] >>

\* "set this to a working gateway": "" as shipped, or what the deployer put
DEFAULT_STORAGE_GATEWAY == ""

GatewayConfigs == {DEFAULT_STORAGE_GATEWAY, "https://gw.example/cid",
                   "https://gw.example/cid/"}

\* addLog with slice(-LOG_CAP) in place of slice(0, LOG_CAP): at the cap the
\* new line is the one dropped
addLogKeepsOldest(msg, l) ==
  SubSeq(<<msg>> \o l, Len(l) + 2 - Min(Len(l) + 1, LOG_CAP), Len(l) + 1)

\* addLog: newest first, at most LOG_CAP lines.  A line is modelled by its
\* message; the time-of-day prefix is left out.
addLog(msg, l) == SubSeq(<<msg>> \o l, 1, Min(Len(l) + 1, LOG_CAP))

\* several addLog calls in a row, msgs in call order
RECURSIVE addLogs(_, _)
addLogs(msgs, l) ==
  IF msgs = <<>> THEN l ELSE addLogs(Tail(msgs), addLog(Head(msgs), l))

----------------------------------------------------------------------------
(* App.tsx: what the wallet, the storage layers and the user can supply *)

\* accounts a wallet may hold, as getAddress() returns them (checksum case)
Accounts == {"0x6F4D829488686afd8D9B68AE56986C312784C0e6",
             "0x00000000000000000000000000000000000000Aa"}

\* tokens whose button the user presses
DownloadTokens == {1, 2}

\* values typed into the gateway field
GatewayInputs == {"", "https://gw.example/cid", "https://gw.example/cid/"}

\* signatures signMessage may return
Signatures == {"0xsigA", "0xsigB"}

\* SHA-256 of the signature text, imported as the AES key: a collision-free
\* map from signature texts to keys
deriveKeyFromSignature(signature) ==
  CASE signature = "0xsigA" -> 1
    [] signature = "0xsigB" -> 2
    [] OTHER -> 3

FilePlain == PatternBytes(MaxPlainLen, 65)

\* what the storage may hold for a CID: a payload sealed under key 1, or junk
SealedPayload ==
  Base64Encode(PatternBytes(IV_LEN, 5)
               \o AesGcmEncrypt(FilePlain, 1, PatternBytes(IV_LEN, 5)))

ShortPayload == Base64Encode(PatternBytes(IV_LEN, 9))

StoredPayloads == {SealedPayload, ShortPayload}

\* the gateway's text body may end in a line break
GatewayTexts == {SealedPayload \o <<WS>>, ShortPayload}

GatewayStatuses == {200, 404}

\* shapes of the module import('@0glabs/0g-ts-sdk') may resolve to
SdkShapes == {"download", "StorageClient", "other"}

----------------------------------------------------------------------------
(* App.tsx: the session handlers connectWalletConnect and disconnect *)

otherVars == <<now, reqs, cidIn, cidOut, dec>>

RemoveAt(seq, j) == SubSeq(seq, 1, j - 1) \o SubSeq(seq, j + 1, Len(seq))

\* the Connect button is rendered while no address is connected
ConnectClick ==
  /\ clicks < MaxClicks
  /\ connectedAddress = NULL
  /\ logs' = addLog("Opening WalletConnect...", logs)
  /\ conn' = Append(conn, [op |-> "connect", pc |-> "enable", account |-> NULL])
  /\ clicks' = clicks + 1
  /\ last' = [op |-> "connectWalletConnect", id |-> 0]
  /\ UNCHANGED <<connectedAddress, provider, signer, storageGateway, chains,
                 saved, otherVars>>

\* await wcProvider.enable() rejects (modal closed): the catch logs it
EnableRejects ==
  \E j \in 1..Len(conn) :
    /\ conn[j].op = "connect" /\ conn[j].pc = "enable"
    /\ logs' = addLog("Connection failed: " \o "User closed modal", logs)
    /\ conn' = RemoveAt(conn, j)
    /\ UNCHANGED last
    /\ UNCHANGED <<connectedAddress, provider, signer, storageGateway, chains,
                   saved, clicks, otherVars>>

\* await wcProvider.enable() resolves; getSigner(); getAddress() is awaited
EnableResolves ==
  \E j \in 1..Len(conn), a \in Accounts :
    /\ conn[j].op = "connect" /\ conn[j].pc = "enable"
    /\ conn' = [conn EXCEPT ![j].pc = "address", ![j].account = a]
    /\ UNCHANGED last
    /\ UNCHANGED <<connectedAddress, provider, signer, logs, storageGateway,
                   chains, saved, clicks, otherVars>>

\* await signerLocal.getAddress() resolves: the three setters and the log
AddressResolves ==
  \E j \in 1..Len(conn) :
    /\ conn[j].op = "connect" /\ conn[j].pc = "address"
    /\ provider' = "WalletConnectProvider"
    /\ signer' = conn[j].account
    /\ connectedAddress' = ToLowerCase(conn[j].account)
    /\ logs' = addLog("Connected: " \o ToLowerCase(conn[j].account), logs)
    /\ conn' = RemoveAt(conn, j)
    /\ UNCHANGED last
    /\ UNCHANGED <<storageGateway, chains, saved, clicks, otherVars>>

\* the Disconnect button is rendered while an address is connected; with a
\* provider the handler first awaits provider.disconnect()
DisconnectClick ==
  /\ clicks < MaxClicks
  /\ connectedAddress # NULL
  /\ IF provider # NULL
     THEN /\ conn' = Append(conn, [op |-> "disconnect", pc |-> "await",
                                   account |-> NULL])
          /\ UNCHANGED <<connectedAddress, provider, signer, logs>>
     ELSE /\ provider' = NULL /\ signer' = NULL /\ connectedAddress' = NULL
          /\ logs' = addLog("Disconnected", logs)
          /\ UNCHANGED conn
  /\ clicks' = clicks + 1
  /\ last' = [op |-> "disconnect", id |-> 0]
  /\ UNCHANGED <<storageGateway, chains, saved, otherVars>>

\* provider.disconnect() settles either way (its rejection is swallowed)
DisconnectSettles ==
  \E j \in 1..Len(conn) :
    /\ conn[j].op = "disconnect"
    /\ provider' = NULL /\ signer' = NULL /\ connectedAddress' = NULL
    /\ logs' = addLog("Disconnected", logs)
    /\ conn' = RemoveAt(conn, j)
    /\ UNCHANGED last
    /\ UNCHANGED <<storageGateway, chains, saved, clicks, otherVars>>

\* the gateway field's onChange
SetGateway ==
  \E g \in GatewayInputs :
    /\ clicks < MaxClicks
    /\ storageGateway # g
    /\ storageGateway' = g
    /\ clicks' = clicks + 1
    /\ last' = [op |-> "setStorageGateway", id |-> 0]
    /\ UNCHANGED <<connectedAddress, provider, signer, logs, conn, chains,
                   saved, otherVars>>

----------------------------------------------------------------------------
(* App.tsx: handleDownload.  A call chain is a record: the token, where the *)
(* chain stands (pc), the signer and gateway its closure captured, what it  *)
(* obtained so far, the pipeline steps it started (steps), the fetch        *)
(* strategies it went through (tried) and the message it failed with.       *)

\* the Download button: disabled={!allowed || !t.storageCid}
ButtonEnabled(t) ==
  /\ connectedAddress # NULL
  /\ ToLowerCase(connectedAddress) = OWNER_ADDRESS
  /\ TOKENS[t].storageCid # ""

\* the early returns of handleDownload: the message logged, or "" to go on
\* (the source's long dash is written "-" here)
DownloadGuardNoOwnerCheck(t) ==
  IF signer = NULL \/ connectedAddress = NULL THEN "Connect wallet first"
  ELSE IF TOKENS[t].storageCid = ""
  THEN "No storage CID for this token. Fill it in code or metadata."
  ELSE ""

DownloadGuard(t) ==
  IF signer = NULL \/ connectedAddress = NULL THEN "Connect wallet first"
  ELSE IF ToLowerCase(connectedAddress) # OWNER_ADDRESS
  THEN "Connected address does not match owner - download not allowed"
  ELSE IF TOKENS[t].storageCid = ""
  THEN "No storage CID for this token. Fill it in code or metadata."
  ELSE ""

\* the challenge without its Date.now() part
ChallengeNoTime(tokenId, ms) == "0g-download:" \o tokenId

\* `0g-download:${token.tokenId}:${Date.now()}`
Challenge(tokenId, ms) == "0g-download:" \o tokenId \o ":" \o ToString(ms)

\* at is the Date.now() reading the challenge was built from, challenge the
\* text handed to signer.signMessage
NewChain(t) ==
  [token |-> t, pc |-> "sign", signerAt |-> signer, addressAt |-> connectedAddress,
   gateway |-> storageGateway, at |-> now,
   challenge |-> Challenge(TOKENS[t].tokenId, now), sig |-> NULL, key |-> 0,
   b64 |-> <<>>, url |-> NULL, tried |-> <<>>, steps |-> <<"sign">>,
   error |-> NULL, propagated |-> FALSE]

\* handleDownload(t) is modelled as callable in every state, so that its own
\* early returns are exercised; the button adds ButtonEnabled on top
handleDownload(t) ==
  /\ clicks < MaxClicks
  /\ IF DownloadGuard(t) # ""
     THEN /\ logs' = addLog(DownloadGuard(t), logs)
          /\ UNCHANGED chains
     ELSE /\ logs' = addLog("Signing challenge...", logs)
          /\ chains' = Append(chains, NewChain(t))
  /\ clicks' = clicks + 1
  /\ last' = [op |-> "handleDownload", id |-> t]
  /\ UNCHANGED <<connectedAddress, provider, signer, storageGateway, conn,
                 saved, otherVars>>

HandleDownload == \E t \in DownloadTokens : handleDownload(t)

\* the catch of handleDownload: the error stops here, the chain ends, the
\* message is logged
CatchDownloadSilent(c, msg, l) ==
  [chain |-> [c EXCEPT !.pc = "failed", !.error = msg, !.propagated = FALSE],
   logs |-> l]

CatchDownload(c, msg, l) ==
  [chain |-> [c EXCEPT !.pc = "failed", !.error = msg, !.propagated = FALSE],
   logs |-> addLog("Download/decrypt failed: " \o msg, l)]

\* the catch of fetchCidBase64 logs and rethrows: the error leaves
\* fetchCidBase64 and lands in the catch above within the same step
CatchFetch(c, msg, l) ==
  CatchDownload([c EXCEPT !.propagated = TRUE], msg,
                addLog("Fetch error: " \o msg, l))

\* fetchCidBase64 returns b64: handleDownload logs and calls
\* decryptBase64Payload, which awaits the primitive
FetchReturns(c, b64, how, via, l) ==
  [chain |-> [c EXCEPT !.pc = "decrypt", !.b64 = b64,
                       !.tried = Append(c.tried, how),
                       !.steps = Append(c.steps, "decrypt")],
   logs |-> addLogs(<<via, "Decrypting...">>, l)]

\* "Fallback to HTTP gateway": throw when none is configured, else fetch(url)
ToGateway(c, l) ==
  IF c.gateway = ""
  THEN CatchFetch([c EXCEPT !.tried = Append(c.tried, "gateway:absent")],
                  "No storage gateway configured and 0g SDK not available.", l)
  ELSE LET normalized == normalizeCid(TOKENS[c.token].storageCid)
           url == IF EndsWith(c.gateway, "/")
                  THEN c.gateway \o normalized
                  ELSE c.gateway \o "/" \o normalized
       IN [chain |-> [c EXCEPT !.pc = "fetch.http", !.url = url], logs |-> l]

\* one step of chain i: its record and the log are replaced together
ChainStep(i, r) ==
  /\ chains' = [chains EXCEPT ![i] = r.chain]
  /\ logs' = r.logs
  /\ UNCHANGED last
  /\ UNCHANGED <<connectedAddress, provider, signer, storageGateway, conn,
                 saved, clicks, otherVars>>


Tried(c, how) == [c EXCEPT !.tried = Append(c.tried, how)]

\* await signer.signMessage(challenge) rejects
SignRejects ==
  \E i \in 1..Len(chains) :
    /\ chains[i].pc = "sign"
    /\ ChainStep(i, CatchDownload(chains[i], "user rejected signing", logs))

\* await signer.signMessage(challenge) resolves; deriveKeyFromSignature starts
SignResolves ==
  \E i \in 1..Len(chains), sg \in Signatures :
    /\ chains[i].pc = "sign"
    /\ ChainStep(i,
         [chain |-> [chains[i] EXCEPT !.pc = "derive", !.sig = sg,
                                      !.steps = Append(@, "derive")],
          logs |-> addLog("Signature obtained. Deriving key...", logs)])

\* digest and importKey resolve; fetchCidBase64 starts, looks for
\* window.OGStorage.download and awaits it, or else awaits the import
DeriveResolves ==
  \E i \in 1..Len(chains), hasGlobal \in BOOLEAN :
    /\ chains[i].pc = "derive"
    /\ ChainStep(i,
         [chain |-> [chains[i] EXCEPT
                       !.pc = IF hasGlobal THEN "fetch.global" ELSE "fetch.import",
                       !.key = deriveKeyFromSignature(chains[i].sig),
                       !.tried = IF hasGlobal THEN <<>> ELSE <<"global:absent">>,
                       !.steps = Append(@, "fetch")],
          logs |-> addLogs(<<"Fetching encrypted payload (base64)...",
                             "Fetching CID: " \o TOKENS[chains[i].token].storageCid>>,
                           logs)])

GlobalResolves ==
  \E i \in 1..Len(chains), b64 \in StoredPayloads :
    /\ chains[i].pc = "fetch.global"
    /\ ChainStep(i, FetchReturns(chains[i], b64, "global:ok",
                                 "Fetched via global OGStorage", logs))

\* the global client's download rejects: the outer catch logs and rethrows
GlobalRejects ==
  \E i \in 1..Len(chains) :
    /\ chains[i].pc = "fetch.global"
    /\ ChainStep(i, CatchFetch(Tried(chains[i], "global:failed"),
                               "OGStorage download failed", logs))

\* import('@0glabs/0g-ts-sdk') rejects: the inner catch swallows it
ImportRejects ==
  \E i \in 1..Len(chains) :
    /\ chains[i].pc = "fetch.import"
    /\ ChainStep(i, ToGateway(Tried(chains[i], "sdk:absent"), logs))

ImportResolves ==
  \E i \in 1..Len(chains), shape \in SdkShapes :
    /\ chains[i].pc = "fetch.import"
    /\ ChainStep(i,
         IF shape = "download"
         THEN [chain |-> [chains[i] EXCEPT !.pc = "fetch.sdk"], logs |-> logs]
         ELSE IF shape = "StorageClient"
         THEN ToGateway(Tried(chains[i], "sdk:absent"),
                addLog("0g SDK loaded but no known download method found. Falling back to gateway.",
                       logs))
         ELSE ToGateway(Tried(chains[i], "sdk:absent"), logs))

SdkResolves ==
  \E i \in 1..Len(chains), b64 \in StoredPayloads :
    /\ chains[i].pc = "fetch.sdk"
    /\ ChainStep(i, FetchReturns(chains[i], b64, "sdk:ok",
                                 "Fetched via @0glabs/0g-ts-sdk.download", logs))

\* mod.download rejects inside the inner try: swallowed, gateway next
SdkRejects ==
  \E i \in 1..Len(chains) :
    /\ chains[i].pc = "fetch.sdk"
    /\ ChainStep(i, ToGateway(Tried(chains[i], "sdk:failed"), logs))

HttpRejects ==
  \E i \in 1..Len(chains) :
    /\ chains[i].pc = "fetch.http"
    /\ ChainStep(i, CatchFetch(Tried(chains[i], "gateway:failed"),
                               "Failed to fetch", logs))

\* fetch(url) resolves: !res.ok throws, else res.text() is awaited
HttpResolves ==
  \E i \in 1..Len(chains), st \in GatewayStatuses :
    /\ chains[i].pc = "fetch.http"
    /\ ChainStep(i,
         IF st \in 200..299
         THEN [chain |-> [chains[i] EXCEPT !.pc = "fetch.text"], logs |-> logs]
         ELSE CatchFetch(Tried(chains[i], "gateway:failed"),
                         "Gateway fetch failed: " \o ToString(st), logs))

TextResolves ==
  \E i \in 1..Len(chains), text \in GatewayTexts :
    /\ chains[i].pc = "fetch.text"
    /\ ChainStep(i, FetchReturns(chains[i], Trim(text), "gateway:ok",
                                 "Fetched via HTTP gateway", logs))

\* decryptBase64Payload settles: on bytes the file is saved under the token's
\* file name and the completion logged, on an error the catch runs
DecryptSettles ==
  \E i \in 1..Len(chains) :
    /\ chains[i].pc = "decrypt"
    /\ \E r \in {decryptBase64Payload(chains[i].b64, chains[i].key)} :
         IF r.ok
         THEN /\ saved' = Append(saved,
                    [chain |-> i,
                     fileName |-> OrElse(TOKENS[chains[i].token].fileName,
                                         "download.bin"),
                     bytes |-> r.bytes,
                     session |-> connectedAddress])
              /\ chains' = [chains EXCEPT ![i].pc = "saved",
                                          ![i].steps = Append(@, "save")]
              /\ logs' = addLog("Download complete: "
                                  \o TOKENS[chains[i].token].fileName, logs)
         ELSE /\ chains' = [chains EXCEPT
                              ![i] = CatchDownload(chains[i], r.error, logs).chain]
              /\ logs' = CatchDownload(chains[i], r.error, logs).logs
              /\ UNCHANGED saved
    /\ UNCHANGED last
    /\ UNCHANGED <<connectedAddress, provider, signer, storageGateway, conn,
                   clicks, otherVars>>

----------------------------------------------------------------------------
(* The App: every handler and every settling await, in any order *)

Init ==
  /\ connectedAddress = NULL
  /\ provider = NULL
  /\ signer = NULL
  /\ logs = <<>>
  /\ storageGateway \in GatewayConfigs
  /\ conn = <<>>
  /\ chains = <<>>
  /\ saved = <<>>
  /\ clicks = 0
  /\ now = 0
  /\ last = NoStep
  /\ ProxyIdle /\ PureIdle

Next ==
  \/ ConnectClick
  \/ EnableRejects
  \/ EnableResolves
  \/ AddressResolves
  \/ DisconnectClick
  \/ DisconnectSettles
  \/ SetGateway
  \/ HandleDownload
  \/ SignRejects
  \/ SignResolves
  \/ DeriveResolves
  \/ GlobalResolves
  \/ GlobalRejects
  \/ ImportRejects
  \/ ImportResolves
  \/ SdkResolves
  \/ SdkRejects
  \/ HttpRejects
  \/ HttpResolves
  \/ TextResolves
  \/ DecryptSettles

Spec == Init /\ [][Next]_vars

\* the owner's session: the state Spec reaches when the owner's wallet has
\* connected, taken as the start so that MaxClicks actions follow it
InitOwner ==
  /\ connectedAddress = OWNER_ADDRESS
  /\ provider = "WalletConnectProvider"
  /\ signer = "0x6F4D829488686afd8D9B68AE56986C312784C0e6"
  /\ logs = <<"Connected: " \o OWNER_ADDRESS, "Opening WalletConnect...">>
  /\ storageGateway \in GatewayConfigs
  /\ conn = <<>>
  /\ chains = <<>>
  /\ saved = <<>>
  /\ clicks = 0
  /\ now = 0
  /\ last = [op |-> "connectWalletConnect", id |-> 0]
  /\ ProxyIdle /\ PureIdle

SpecOwner == InitOwner /\ [][Next]_vars

----------------------------------------------------------------------------
(* Claims about handleDownload *)

IsDownloadClick == clicks' = clicks + 1 /\ last'.op = "handleDownload"

InFlight(c) == c.pc \notin {"saved", "failed"}

\* the condition C1 names, on the state the action is triggered in
DownloadAllowed(t) ==
  /\ signer # NULL
  /\ connectedAddress # NULL
  /\ ToLowerCase(connectedAddress) = OWNER_ADDRESS
  /\ TOKENS[t].storageCid # ""

C1_Step ==
  /\ Len(chains') # Len(chains) =>
       /\ IsDownloadClick
       /\ DownloadAllowed(last'.id)
       /\ chains' = Append(chains, chains'[Len(chains')])
       /\ chains'[Len(chains')].pc = "sign"
  /\ (IsDownloadClick /\ ~DownloadAllowed(last'.id)) =>
       /\ logs' = addLog(logs'[1], logs)
       /\ UNCHANGED <<chains, saved>>

\* C1: a call chain (signMessage, then fetchCidBase64, decryption and save)
\* is started only by a handleDownload call made while a signer and an
\* address are present, the address lower-cased is OWNER_ADDRESS and the
\* token's storageCid is non-empty; every other handleDownload call appends
\* exactly one log line and starts nothing.
C1_DownloadGuarded == [][C1_Step]_vars

C1_Witness_NotOwner ==
  /\ last.op = "handleDownload"
  /\ connectedAddress \notin {NULL, OWNER_ADDRESS}
  /\ signer # NULL
  /\ logs[1] = "Connected address does not match owner - download not allowed"
  /\ chains = <<>>

Pipeline == <<"sign", "derive", "fetch", "decrypt", "save">>

IsPrefix(a, b) == Len(a) <= Len(b) /\ SubSeq(b, 1, Len(a)) = a

SavesOf(i) == {k \in 1..Len(saved) : saved[k].chain = i}

C8_State ==
  \A i \in 1..Len(chains) :
    /\ IsPrefix(chains[i].steps, Pipeline)
    /\ Cardinality(SavesOf(i)) <= 1
    /\ (SavesOf(i) # {}) <=> (chains[i].pc = "saved")
    /\ chains[i].pc = "saved" <=> chains[i].steps = Pipeline
    /\ chains[i].pc = "failed" =>
         /\ chains[i].error # NULL
         /\ ~chains[i].propagated

C8_Step ==
  \A i \in 1..Len(chains) :
    /\ ~InFlight(chains[i]) => chains'[i] = chains[i]
    /\ chains'[i].steps # chains[i].steps =>
         chains'[i].steps = SubSeq(Pipeline, 1, Len(chains[i].steps) + 1)
    /\ (InFlight(chains[i]) /\ chains'[i].pc = "failed") =>
         /\ logs'[1] = "Download/decrypt failed: " \o chains'[i].error
         /\ chains'[i].steps = chains[i].steps
         /\ saved' = saved

\* C8: the steps of one download run in the order sign, derive, fetch,
\* decrypt, save, each at most once; when a step fails the chain ends there:
\* no later step starts, nothing is saved, "Download/decrypt failed: " with
\* the failure's message is the line appended, and nothing is thrown on.
C8_PipelineOrderAndAbort == []C8_State /\ [][C8_Step]_vars

C8_Witness_ShortPayload ==
  \E i \in 1..Len(chains) :
    /\ chains[i].pc = "failed"
    /\ chains[i].error = "Payload too short"
    /\ chains[i].steps = <<"sign", "derive", "fetch", "decrypt">>
    /\ logs[1] = "Download/decrypt failed: Payload too short"
    /\ saved = <<>>

FetchFailed(c) == c.pc = "failed" /\ c.steps = <<"sign", "derive", "fetch">>

Exhausted(c, strategy) ==
  \E k \in 1..Len(c.tried) :
    c.tried[k] \in {strategy \o ":absent", strategy \o ":failed"}

\* C9 (as claimed): the strategies global client, SDK download, HTTP gateway
\* are tried in that order until one succeeds, so fetchCidBase64 fails only
\* when every one of them was unavailable or failed.
C9_FailsOnlyWhenAllStrategiesFailed ==
  \A i \in 1..Len(chains) :
    FetchFailed(chains[i]) =>
      /\ Exhausted(chains[i], "global")
      /\ Exhausted(chains[i], "sdk")
      /\ Exhausted(chains[i], "gateway")

\* C10 (as claimed): while a call chain is awaiting, no other action starts
\* (at most one chain of any handler is in flight), and no download saves
\* after the session was disconnected.
C10_OneChainAtATime ==
  /\ Cardinality({i \in 1..Len(chains) : InFlight(chains[i])}) + Len(conn) <= 1
  /\ \A k \in 1..Len(saved) : saved[k].session # NULL

\* the last part of C10 alone: it fails too (download, disconnect, then the
\* chain's awaits settle and the file is saved with no session left)
C10_SaveOnlyWhileConnected == \A k \in 1..Len(saved) : saved[k].session # NULL

----------------------------------------------------------------------------
(* The log at its cap.  A page that has been in use for a while: rounds of *)
(* a connect attempt given up in the wallet's modal followed by a session  *)
(* (connect, connected, disconnect), by the two accounts in turn, have     *)
(* left their lines; the handlers then run on from there.                  *)

\* the j-th line such a page has logged, j = 1 the oldest
SessionLine(j) ==
  LET round == (j - 1) \div 5
      account == IF round % 2 = 0
                 THEN "0x6F4D829488686afd8D9B68AE56986C312784C0e6"
                 ELSE "0x00000000000000000000000000000000000000Aa"
  IN CASE (j - 1) % 5 = 0 -> "Opening WalletConnect..."
       [] (j - 1) % 5 = 1 -> "Connection failed: " \o "User closed modal"
       [] (j - 1) % 5 = 2 -> "Opening WalletConnect..."
       [] (j - 1) % 5 = 3 -> "Connected: " \o ToLowerCase(account)
       [] OTHER -> "Disconnected"

\* the log after n lines, newest first, as addLog leaves it
History(n) == [i \in 1..n |-> SessionLine(n - i + 1)]

\* line counts at which no handler is in flight and nobody is connected:
\* a page just below the cap and one at it
HistoryLengths == {LOG_CAP - 3, LOG_CAP}

InitLog ==
  /\ connectedAddress = NULL
  /\ provider = NULL
  /\ signer = NULL
  /\ \E n \in HistoryLengths : logs = History(n)
  /\ storageGateway \in GatewayConfigs
  /\ conn = <<>>
  /\ chains = <<>>
  /\ saved = <<>>
  /\ clicks = 0
  /\ now = 0
  /\ last = NoStep
  /\ ProxyIdle /\ PureIdle

SpecLog == InitLog /\ [][Next]_vars

\* logs' is logs with k lines put in front, cut at the cap
Prepended(k) ==
  /\ k <= Len(logs')
  /\ logs' = SubSeq(SubSeq(logs', 1, k) \o logs, 1, Min(Len(logs) + k, LOG_CAP))

\* the lines handleDownload logs before its first await
DownloadFirstLines ==
  {"Connect wallet first",
   "Connected address does not match owner - download not allowed",
   "No storage CID for this token. Fill it in code or metadata.",
   "Signing challenge..."}

C11_Step ==
  /\ logs' # logs => \E k \in {1, 2, 3} : Prepended(k)
  /\ (clicks' = clicks + 1 /\ last'.op = "connectWalletConnect") =>
       logs' = <<"Opening WalletConnect...">>
                 \o SubSeq(logs, 1, Min(Len(logs), LOG_CAP - 1))
  /\ IsDownloadClick =>
       /\ logs'[1] \in DownloadFirstLines
       /\ Tail(logs') = SubSeq(logs, 1, Min(Len(logs), LOG_CAP - 1))

\* C11: after any sequence of connect, disconnect and download actions the
\* log holds at most 200 lines, newest first; a line appended to a log of 200
\* lines evicts the oldest one and the 199 most recent earlier lines are kept
\* in their order.
C11_LogCappedNewestFirst == [](Len(logs) <= LOG_CAP) /\ [][C11_Step]_vars

\* a Connect press on a page whose log was at the cap: the new line is first,
\* the 199 most recent earlier lines follow, the oldest one is gone
C11_Witness_EvictedAtCap ==
  /\ last.op = "connectWalletConnect"
  /\ clicks = 1
  /\ Len(conn) = 1
  /\ Len(logs) = LOG_CAP
  /\ logs = <<"Opening WalletConnect...">> \o SubSeq(History(LOG_CAP), 1, LOG_CAP - 1)
  /\ logs[LOG_CAP] # History(LOG_CAP)[LOG_CAP]

----------------------------------------------------------------------------
(* The challenge and the clock.  Date.now() counts whole milliseconds; the  *)
(* owner presses Download buttons while time passes or does not pass        *)
(* between two presses.  The chains are followed up to the signer's answer. *)

MaxClock == 1        \* milliseconds the clock advances

\* one millisecond passes
Tick ==
  /\ now < MaxClock
  /\ now' = now + 1
  /\ UNCHANGED <<connectedAddress, provider, signer, logs, storageGateway,
                 conn, chains, saved, clicks, last, reqs, cidIn, cidOut, dec>>

\* any of the listed tokens' buttons
HandleDownloadAnyToken == \E t \in 1..Len(TOKENS) : handleDownload(t)

NextChallenge ==
  \/ Tick
  \/ HandleDownloadAnyToken
  \/ SignRejects
  \/ SignResolves

SpecChallenge == InitOwner /\ [][NextChallenge]_vars

TokenIdOf(c) == TOKENS[c.token].tokenId

\* C12 (as claimed): any two download invocations that reach the signing
\* step, two invocations for the same token included, present different
\* challenge strings.
C12_Claimed_ChallengesAllDiffer ==
  \A i, j \in 1..Len(chains) :
    i # j => chains[i].challenge # chains[j].challenge

\* C12 (amended): the challenge is "0g-download:", the token identifier, ":"
\* and the millisecond reading of Date.now(); two invocations that reach the
\* signing step present the same challenge exactly when they are for the same
\* token identifier and read the same millisecond.
C12_ChallengesDifferByTokenOrTime ==
  \A i, j \in 1..Len(chains) :
    /\ chains[i].challenge
         = "0g-download:" \o TokenIdOf(chains[i]) \o ":" \o ToString(chains[i].at)
    /\ chains[i].challenge = chains[j].challenge
         <=> (TokenIdOf(chains[i]) = TokenIdOf(chains[j])
              /\ chains[i].at = chains[j].at)

\* two invocations for the same token, a millisecond or more apart
C12_Witness_SameTokenLaterMs ==
  \E i, j \in 1..Len(chains) :
    /\ i < j
    /\ chains[i].token = chains[j].token
    /\ chains[i].at < chains[j].at
    /\ chains[i].challenge # chains[j].challenge

=============================================================================
